---- MODULE Spec2Model ----
(***************************************************************************)
(* Model of the diffuser control core of app.py: the shared `state` dict,  *)
(* the HVAC monitor thread, the duty-cycle control thread, the actuator    *)
(* commands, the business-hours gate and the Flask handlers that read and  *)
(* write the shared state.                                                 *)
(*                                                                         *)
(* Conventions                                                             *)
(*  - Python None / an absent optional is the empty tuple <<>>, a present  *)
(*    value v is <<v>>; truthiness of such a field is "# <<>>".            *)
(*  - time.time() is the integer `now` (seconds); one controller tick      *)
(*    (body + time.sleep(1)) advances it by TICK.                          *)
(*  - *_runtime_minutes is held as a whole number of quanta of 1/60 minute *)
(*    (the `elapsed = 1.0 / 60.0` the code adds), i.e. value = n / 60 min. *)
(*  - time strings ("09:00") are tuples of one-character strings, so that  *)
(*    parsing is computed and can fail.                                    *)
(***************************************************************************)
EXTENDS Integers, Sequences, FiniteSets, TLC

VARIABLES
    state,          \* the global `state` dict (Shared Control State)
    ctl,            \* locals of control_thread_func
    gpio_pump,      \* level of the pump output device (Actuator Sink)
    gpio_fan,       \* level of the fan output device (Actuator Sink)
    GPIO_AVAILABLE, \* module flag: real output devices are driven
    now,            \* time.time(), seconds
    day_offset,     \* time of day (seconds) of the instant now = 0
    mon_due,        \* earliest time of the monitor thread's next tick
    status,         \* last response of /api/status, <<>> before the first
    tick_path,      \* branch taken by the last controller tick
    rise_time,      \* time of the last false->true change of hvac_fan_state
    write_failed,   \* some Actuator Sink write has raised
    config_loaded,  \* load_config() overlaid a persisted config.json
    ticks_on,       \* controller ticks each actuator was on since last reset
    last_switch,    \* time of the controller tick that last changed pump_on
    gate,           \* probe of is_business_hours (SpecGate only)
    hvac_history,   \* the global list hvac_history of <<timestamp, state>>
    history_file,   \* content of history.json, <<>> while it does not exist
    history_out,    \* last response of /api/history (body), with the time of
                    \* the call (at) and the buffer length then (size)
    appends,        \* successful appends to hvac_history in this run
    saves,          \* calls of save_history() made by the monitor thread
    config_file,    \* content of config.json, <<>> while it does not exist
    read_path,      \* how read_hvac_state reads: "device" or "lgpio"
    tick_err,       \* the last controller tick ended in its except clause
    tick_writes,    \* sink writes <<device, value>> made by the last tick
    written,        \* last value written to each sink by this process
    req_error,      \* the last /api/settings request raised (HTTP 500)
    rmw,            \* pump_runtime_minutes as read by the control thread's `+=`
                    \* whose store is still to come, <<>> otherwise
    stop_flag,      \* the threading.Event stop_flag is set
    alive,          \* which of the two threads has not left its loop
    stop_time,      \* time at which stop_flag was set, <<>> before
    exit_time,      \* time at which each thread left its loop, <<>> before
    finished        \* the finally block of __main__ has run to its end

\* the variables written by the monitor thread's history bookkeeping
histvars == <<hvac_history, history_file, appends, saves>>

\* the record of the sink writes of the controller
sinkvars == <<tick_err, tick_writes, written>>

\* the stop signal and what follows it
stopvars == <<stop_flag, alive, stop_time, exit_time, finished>>

vars == <<state, ctl, gpio_pump, gpio_fan, GPIO_AVAILABLE, now, day_offset, mon_due,
          status,
          tick_path, rise_time, write_failed, config_loaded, ticks_on, last_switch, gate,
          histvars, history_out, config_file, read_path, sinkvars, req_error, rmw,
          stopvars>>

None == <<>>
Some(v) == <<v>>
IsSet(o) == o # <<>>
Val(o) == o[1]

---------------------------------------------------------------------------
(* Bounds of the model *)

\* the clock stops advancing here (controller ticks are disabled afterwards)
MaxTime == 12

\* /api/status is not queried any more once a runtime accumulator reached this
\* (each query adds to the accumulators, which would grow without bound)
MaxRuntime == 3

---------------------------------------------------------------------------
(* Program constants *)

\* time.sleep(1) of the control thread, seconds
TICK == 1
\* time.sleep(5) of the monitor thread, seconds
MONITOR_PERIOD == 5
\* "Wait 10 seconds after detecting HVAC fan"
ARM_DELAY == 10
\* `len(hvac_history) % 60 == 0`: "Save history periodically"
SAVE_EVERY == 60

\* DUTY_CYCLES: preset key -> (on_time, off_time) in seconds
DUTY_CYCLES ==
    [k \in {"60s_240s", "60s_120s", "60s_90s", "60s_60s", "60s_45s",
            "60s_30s", "90s_30s", "120s_30s", "240s_30s", "360s_30s"} |->
        CASE k = "60s_240s" -> <<60, 240>>
          [] k = "60s_120s" -> <<60, 120>>
          [] k = "60s_90s"  -> <<60, 90>>
          [] k = "60s_60s"  -> <<60, 60>>
          [] k = "60s_45s"  -> <<60, 45>>
          [] k = "60s_30s"  -> <<60, 30>>
          [] k = "90s_30s"  -> <<90, 30>>
          [] k = "120s_30s" -> <<120, 30>>
          [] k = "240s_30s" -> <<240, 30>>
          [] k = "360s_30s" -> <<360, 30>>]

\* DUTY_CYCLES.get with the pair read in the wrong order
DutyCycleGet_Swapped(key) ==
    IF key \in DOMAIN DUTY_CYCLES
    THEN <<DUTY_CYCLES[key][2], DUTY_CYCLES[key][1]>>
    ELSE <<120, 60>>

\* DUTY_CYCLES.get that returns the default pair whatever the key
DutyCycleGet_Fixed(key) == <<60, 120>>

\* DUTY_CYCLES.get(key, (60, 120))
DutyCycleGet(key) ==
    IF key \in DOMAIN DUTY_CYCLES THEN DUTY_CYCLES[key] ELSE <<60, 120>>

\* the initial value of the global `state` dict
DefaultState ==
    [enabled |-> FALSE,
     duty_cycle |-> "60s_120s",
     business_hours_enabled |-> FALSE,
     business_hours_start |-> <<"0", "9", ":", "0", "0">>,
     business_hours_end |-> <<"1", "7", ":", "0", "0">>,
     oil_usage_rate_ml_per_hour |-> 10,
     oil_bottle_capacity_ml |-> 500,
     hvac_fan_state |-> FALSE,
     pump_on |-> FALSE,
     fan_on |-> FALSE,
     pump_runtime_minutes |-> 0,
     fan_runtime_minutes |-> 0,
     last_pump_start |-> None,
     last_fan_start |-> None]

\* the locals of control_thread_func before its loop
InitCtl ==
    [hvac_detected |-> FALSE,
     hvac_detected_time |-> None,
     pump_on |-> FALSE,
     fan_on |-> FALSE,
     duty_cycle_start |-> None,
     on_phase |-> TRUE]

---------------------------------------------------------------------------
(* Configuration Gate: is_business_hours *)

DigitChars == <<"0", "1", "2", "3", "4", "5", "6", "7", "8", "9">>

IsDigit(c) == \E i \in 1..10 : DigitChars[i] = c

Digit(c) == (CHOOSE i \in 1..10 : DigitChars[i] = c) - 1

\* two decimal digits at positions i, i+1 of s, or None
TwoDigits(s, i) ==
    IF IsDigit(s[i]) /\ IsDigit(s[i + 1])
    THEN Some(10 * Digit(s[i]) + Digit(s[i + 1]))
    ELSE None

\* datetime.time.fromisoformat on "HH", "HH:MM" or "HH:MM:SS": the time of
\* day in seconds, or None where it raises ValueError
ParseTime(s) ==
    LET n  == Len(s)
        hh == IF n >= 2 THEN TwoDigits(s, 1) ELSE None
        mm == IF n >= 5 /\ s[3] = ":" THEN TwoDigits(s, 4) ELSE None
        ss == IF n = 8 /\ s[6] = ":" THEN TwoDigits(s, 7) ELSE None
    IN  IF n = 2 /\ IsSet(hh) /\ Val(hh) <= 23
        THEN Some(Val(hh) * 3600)
        ELSE IF n = 5 /\ IsSet(hh) /\ IsSet(mm) /\ Val(hh) <= 23 /\ Val(mm) <= 59
        THEN Some(Val(hh) * 3600 + Val(mm) * 60)
        ELSE IF n = 8 /\ IsSet(hh) /\ IsSet(mm) /\ IsSet(ss)
                /\ Val(hh) <= 23 /\ Val(mm) <= 59 /\ Val(ss) <= 59
        THEN Some(Val(hh) * 3600 + Val(mm) * 60 + Val(ss))
        ELSE None

\* InWindow with the end of the window excluded
InWindow_EndExclusive(start_time, end_time, current_time) ==
    IF start_time <= end_time
    THEN start_time <= current_time /\ current_time < end_time
    ELSE current_time >= start_time \/ current_time < end_time

\* the comparison of is_business_hours once both times parsed
InWindow(start_time, end_time, current_time) ==
    IF start_time <= end_time
    THEN start_time <= current_time /\ current_time <= end_time
    ELSE current_time >= start_time \/ current_time <= end_time

\* is_business_hours whose except clause answers False
is_business_hours_FailClosed(st, current_time) ==
    IF ~st.business_hours_enabled
    THEN TRUE
    ELSE LET start_time == ParseTime(st.business_hours_start)
             end_time   == ParseTime(st.business_hours_end)
         IN  IF ~IsSet(start_time) \/ ~IsSet(end_time)
             THEN FALSE
             ELSE InWindow(Val(start_time), Val(end_time), current_time)

\* is_business_hours() for the given state dict; current_time is
\* datetime.now().time() in seconds of the day
is_business_hours(st, current_time) ==
    IF ~st.business_hours_enabled
    THEN TRUE
    ELSE LET start_time == ParseTime(st.business_hours_start)
             end_time   == ParseTime(st.business_hours_end)
         IN  IF ~IsSet(start_time) \/ ~IsSet(end_time)
             THEN TRUE      \* except Exception: return True
             ELSE InWindow(Val(start_time), Val(end_time), current_time)

---------------------------------------------------------------------------
(* Runtime accounting and actuator commands *)

\* update_runtime_counters accumulating on the start timestamp alone, without
\* looking at the actuator flag
update_runtime_counters_ByTimestamp(st, t) ==
    LET s1 == IF IsSet(st.last_pump_start)
              THEN [st EXCEPT !.pump_runtime_minutes = @ + 1]
              ELSE IF st.pump_on THEN [st EXCEPT !.last_pump_start = Some(t)] ELSE st
    IN  IF IsSet(s1.last_fan_start)
        THEN [s1 EXCEPT !.fan_runtime_minutes = @ + 1]
        ELSE IF s1.fan_on THEN [s1 EXCEPT !.last_fan_start = Some(t)] ELSE s1

\* update_runtime_counters() on the state dict st at time t
update_runtime_counters(st, t) ==
    LET s1 == IF st.pump_on
              THEN IF IsSet(st.last_pump_start)
                   THEN [st EXCEPT !.pump_runtime_minutes = @ + 1]
                   ELSE [st EXCEPT !.last_pump_start = Some(t)]
              ELSE IF IsSet(st.last_pump_start)
                   THEN [st EXCEPT !.last_pump_start = None]
                   ELSE st
    IN  IF s1.fan_on
        THEN IF IsSet(s1.last_fan_start)
             THEN [s1 EXCEPT !.fan_runtime_minutes = @ + 1]
             ELSE [s1 EXCEPT !.last_fan_start = Some(t)]
        ELSE IF IsSet(s1.last_fan_start)
             THEN [s1 EXCEPT !.last_fan_start = None]
             ELSE s1

(* A "world" w is what one handler run reads and writes:                   *)
(*   w.state, w.ctl, w.gpio_pump, w.gpio_fan, w.avail (GPIO_AVAILABLE),    *)
(*   w.err (an exception is propagating: the statements after it are       *)
(*   skipped), w.path (branch of the controller tick), w.writes (the       *)
(*   calls gpio_*.on() / .off() that returned, as <<device, value>>).      *)

\* set_pump that writes to the sink without looking at state['pump_on']
set_pump_Unguarded(w, on, t, fail) ==
    IF w.err THEN w
    ELSE IF w.avail /\ fail THEN [w EXCEPT !.err = TRUE]
    ELSE [w EXCEPT !.gpio_pump = IF w.avail THEN on ELSE @,
                   !.writes = IF w.avail THEN Append(@, <<"pump", on>>) ELSE @,
                   !.state.pump_on = on,
                   !.state.last_pump_start =
                        IF on /\ ~IsSet(@) THEN Some(t) ELSE @]

\* set_pump(on) at time t; fail: the output device write raises
set_pump(w, on, t, fail) ==
    IF w.err THEN w
    ELSE IF w.state.pump_on = on THEN w
    ELSE IF w.avail /\ fail THEN [w EXCEPT !.err = TRUE]
    ELSE [w EXCEPT !.gpio_pump = IF w.avail THEN on ELSE @,
                   !.writes = IF w.avail THEN Append(@, <<"pump", on>>) ELSE @,
                   !.state.pump_on = on,
                   !.state.last_pump_start =
                        IF on /\ ~IsSet(@) THEN Some(t) ELSE @]

\* set_fan(on) at time t; fail: the output device write raises
set_fan(w, on, t, fail) ==
    IF w.err THEN w
    ELSE IF w.state.fan_on = on THEN w
    ELSE IF w.avail /\ fail THEN [w EXCEPT !.err = TRUE]
    ELSE [w EXCEPT !.gpio_fan = IF w.avail THEN on ELSE @,
                   !.writes = IF w.avail THEN Append(@, <<"fan", on>>) ELSE @,
                   !.state.fan_on = on,
                   !.state.last_fan_start =
                        IF on /\ ~IsSet(@) THEN Some(t) ELSE @]

---------------------------------------------------------------------------
(* Duty-cycle controller: one iteration of the loop of control_thread_func *)

\* set_pump(False); set_fan(False); pump_on = False; fan_on = False
ForceOff(w, t, pump_fail, fan_fail) ==
    LET w2 == set_fan(set_pump(w, FALSE, t, pump_fail), FALSE, t, fan_fail)
    IN  IF w2.err THEN w2
        ELSE [w2 EXCEPT !.ctl.pump_on = FALSE, !.ctl.fan_on = FALSE]

\* set_pump(True); set_fan(True); pump_on = True; fan_on = True
ForceOn(w, t, pump_fail, fan_fail) ==
    LET w2 == set_fan(set_pump(w, TRUE, t, pump_fail), TRUE, t, fan_fail)
    IN  IF w2.err THEN w2
        ELSE [w2 EXCEPT !.ctl.pump_on = TRUE, !.ctl.fan_on = TRUE]

\* GateBranch without its force-off: the gate only skips the tick
GateBranch_SkipOnly(w, t, pump_fail, fan_fail) == w

\* the body of `if not state['enabled']` and of `if not is_business_hours()`
GateBranch(w, t, pump_fail, fan_fail) ==
    IF w.ctl.pump_on \/ w.ctl.fan_on
    THEN LET w2 == ForceOff(w, t, pump_fail, fan_fail)
         IN  IF w2.err THEN w2
             ELSE [w2 EXCEPT !.ctl.duty_cycle_start = None]
    ELSE w

\* SignalLowBranch that forces the actuators off but keeps the arm state
SignalLowBranch_KeepsArm(w, t, pump_fail, fan_fail) ==
    LET w1 == [w EXCEPT !.path = "signal_low"]
        w2 == IF w1.ctl.pump_on \/ w1.ctl.fan_on
              THEN ForceOff(w1, t, pump_fail, fan_fail)
              ELSE w1
    IN  IF w2.err THEN w2
        ELSE [w2 EXCEPT !.ctl.duty_cycle_start = None]

\* the `else` of `if hvac_state` (HVAC fan is off)
SignalLowBranch(w, t, pump_fail, fan_fail) ==
    LET w1 == [w EXCEPT !.ctl.hvac_detected = FALSE,
                        !.ctl.hvac_detected_time = None,
                        !.path = "signal_low"]
        w2 == IF w1.ctl.pump_on \/ w1.ctl.fan_on
              THEN ForceOff(w1, t, pump_fail, fan_fail)
              ELSE w1
    IN  IF w2.err THEN w2
        ELSE [w2 EXCEPT !.ctl.duty_cycle_start = None]

\* "Still waiting for 10 second delay"
ArmWaitBranch(w, t, pump_fail, fan_fail) ==
    LET w1 == [w EXCEPT !.path = "arm_wait"]
        w2 == IF w1.ctl.pump_on \/ w1.ctl.fan_on
              THEN ForceOff(w1, t, pump_fail, fan_fail)
              ELSE w1
    IN  IF w2.err THEN w2
        ELSE [w2 EXCEPT !.ctl.duty_cycle_start = None]

\* the duty cycle proper, entered once the 10 s have elapsed
DutyCycleBranch(w, t, pump_fail, fan_fail) ==
    LET on_time  == DutyCycleGet(w.state.duty_cycle)[1]
        off_time == DutyCycleGet(w.state.duty_cycle)[2]
        w1 == IF ~IsSet(w.ctl.duty_cycle_start)
              THEN [w EXCEPT !.ctl.duty_cycle_start = Some(t),
                             !.ctl.on_phase = TRUE]
              ELSE w
        elapsed == t - Val(w1.ctl.duty_cycle_start)
    IN  IF w1.ctl.on_phase
        THEN IF elapsed >= on_time
             THEN \* Switch to off phase
                  ForceOff([w1 EXCEPT !.ctl.on_phase = FALSE,
                                      !.ctl.duty_cycle_start = Some(t),
                                      !.path = "to_off"],
                           t, pump_fail, fan_fail)
             ELSE \* Keep pump and fan on
                  IF ~w1.ctl.pump_on \/ ~w1.ctl.fan_on
                  THEN ForceOn([w1 EXCEPT !.path = "on"], t, pump_fail, fan_fail)
                  ELSE [w1 EXCEPT !.path = "on"]
        ELSE IF elapsed >= off_time
             THEN \* Switch to on phase
                  [w1 EXCEPT !.ctl.on_phase = TRUE,
                             !.ctl.duty_cycle_start = Some(t),
                             !.path = "to_on"]
             ELSE \* Keep pump and fan off
                  IF w1.ctl.pump_on \/ w1.ctl.fan_on
                  THEN ForceOff([w1 EXCEPT !.path = "off"], t, pump_fail, fan_fail)
                  ELSE [w1 EXCEPT !.path = "off"]

\* the `if hvac_state` branch
SignalHighBranch(w, t, pump_fail, fan_fail) ==
    LET w1 == IF ~w.ctl.hvac_detected
              THEN [w EXCEPT !.ctl.hvac_detected = TRUE,
                             !.ctl.hvac_detected_time = Some(t)]
              ELSE w
    IN  IF IsSet(w1.ctl.hvac_detected_time)
           /\ t - Val(w1.ctl.hvac_detected_time) >= ARM_DELAY
        THEN DutyCycleBranch(w1, t, pump_fail, fan_fail)
        ELSE ArmWaitBranch(w1, t, pump_fail, fan_fail)

\* the try block of the loop of control_thread_func after its call of
\* update_runtime_counters()
ControlBranches(w1, t, current_time, pump_fail, fan_fail) ==
    IF ~w1.state.enabled
    THEN GateBranch([w1 EXCEPT !.path = "disabled"], t, pump_fail, fan_fail)
    ELSE IF ~is_business_hours(w1.state, current_time)
    THEN GateBranch([w1 EXCEPT !.path = "outside"], t, pump_fail, fan_fail)
    ELSE IF w1.state.hvac_fan_state
    THEN SignalHighBranch(w1, t, pump_fail, fan_fail)
    ELSE SignalLowBranch(w1, t, pump_fail, fan_fail)

\* the try block of the loop of control_thread_func, run at time t with
\* datetime.now().time() = current_time
ControlBody(w, t, current_time, pump_fail, fan_fail) ==
    ControlBranches([w EXCEPT !.state = update_runtime_counters(w.state, t)],
                    t, current_time, pump_fail, fan_fail)

---------------------------------------------------------------------------
(* Consumption Estimator: the computation of get_status *)

\* amounts of oil are held in units of 1/3600 ml, so that
\* pump_runtime_minutes / 60.0 * rate is exact: (n/60 min)/60 * rate = n*rate/3600
ML == 60 * 60

Max(a, b) == IF a >= b THEN a ELSE b

\* round(num/den, 1) for den > 0, in tenths, ties to even
Round1(num, den) ==
    LET fl == (10 * num) \div den
        rm == 10 * num - fl * den
    IN  IF 2 * rm > den THEN fl + 1
        ELSE IF 2 * rm < den THEN fl
        ELSE IF fl % 2 = 0 THEN fl ELSE fl + 1

\* oil_used_ml = pump_runtime_hours * rate
oil_used_ml(st) == st.pump_runtime_minutes * st.oil_usage_rate_ml_per_hour

\* oil_remaining_ml without the clamp at 0
oil_remaining_ml_NoClamp(st) == st.oil_bottle_capacity_ml * ML - oil_used_ml(st)

\* oil_remaining_ml = max(0, capacity - oil_used_ml)
oil_remaining_ml(st) == Max(0, st.oil_bottle_capacity_ml * ML - oil_used_ml(st))

\* oil_percentage = remaining / capacity * 100 if capacity > 0 else 0,
\* as the fraction <<numerator, denominator>> (100 / ML reduced to 1 / 36)
oil_percentage(st) ==
    IF st.oil_bottle_capacity_ml > 0
    THEN <<oil_remaining_ml(st), st.oil_bottle_capacity_ml * (ML \div 100)>>
    ELSE <<0, 1>>

\* the fields get_status adds to the copy of state. used/remaining/percentage
\* are the values before rounding (used and remaining in 1/3600 ml), the
\* oil_* fields are the rounded ones of the response, in tenths.
StatusOf(st) ==
    [runtime |-> st.pump_runtime_minutes,
     rate |-> st.oil_usage_rate_ml_per_hour,
     capacity |-> st.oil_bottle_capacity_ml,
     used |-> oil_used_ml(st),
     remaining |-> oil_remaining_ml(st),
     percentage |-> oil_percentage(st),
     oil_remaining_ml |-> Round1(oil_remaining_ml(st), ML),
     oil_percentage |-> Round1(oil_percentage(st)[1], oil_percentage(st)[2]),
     oil_used_ml |-> Round1(oil_used_ml(st), ML)]

---------------------------------------------------------------------------
(* Configuration mutation boundary: update_settings *)

\* the value of a string of decimal digits
RECURSIVE DigitsValue(_)
DigitsValue(s) ==
    IF s = <<>> THEN 0
    ELSE 10 * DigitsValue(SubSeq(s, 1, Len(s) - 1)) + Digit(s[Len(s)])

AllDigits(s) == s # <<>> /\ \A i \in 1..Len(s) : IsDigit(s[i])

\* float(x) of a JSON value x (a record tagged by its type t): a number
\* converts to itself, a string of digits with an optional sign to its value
\* (floats are whole numbers here); any other string raises ValueError, null
\* raises TypeError: None
ToFloat(j) ==
    IF j.t = "num" THEN Some(j.n)
    ELSE IF j.t = "str" /\ AllDigits(j.s) THEN Some(DigitsValue(j.s))
    ELSE IF j.t = "str" /\ Len(j.s) >= 2 /\ j.s[1] = "-" /\ AllDigits(Tail(j.s))
    THEN Some(0 - DigitsValue(Tail(j.s)))
    ELSE None

\* `data['duty_cycle'] in DUTY_CYCLES` hashes the value: a JSON array or
\* object raises TypeError (unhashable type), which nothing catches
Unhashable(j) == j.t \in {"list", "dict"}

\* update_settings raises for the request body data
SettingsRaises(data) ==
    "duty_cycle" \in DOMAIN data /\ Unhashable(data.duty_cycle)

\* data['duty_cycle'] in DUTY_CYCLES for a hashable value (a preset key is a
\* JSON string, held whole as JText)
InDutyCycles(j) == j.t = "text" /\ j.x \in DOMAIN DUTY_CYCLES

\* the assignments of update_settings for the request body data; the
\* statements after one that raises are not executed
ApplySettings(st, data) ==
    LET has(k) == k \in DOMAIN data
        s1 == IF has("enabled")
              THEN [st EXCEPT !.enabled = data.enabled] ELSE st
        s2 == IF has("duty_cycle") /\ InDutyCycles(data.duty_cycle)
              THEN [s1 EXCEPT !.duty_cycle = data.duty_cycle.x] ELSE s1
        s3 == IF has("business_hours_enabled")
              THEN [s2 EXCEPT !.business_hours_enabled = data.business_hours_enabled]
              ELSE s2
        s4 == IF has("business_hours_start")
              THEN [s3 EXCEPT !.business_hours_start = data.business_hours_start]
              ELSE s3
        s5 == IF has("business_hours_end")
              THEN [s4 EXCEPT !.business_hours_end = data.business_hours_end]
              ELSE s4
        s6 == IF has("oil_usage_rate_ml_per_hour")
                 /\ IsSet(ToFloat(data.oil_usage_rate_ml_per_hour))
              THEN [s5 EXCEPT !.oil_usage_rate_ml_per_hour =
                                    Val(ToFloat(data.oil_usage_rate_ml_per_hour))]
              ELSE s5
        s7 == IF has("oil_bottle_capacity_ml")
                 /\ IsSet(ToFloat(data.oil_bottle_capacity_ml))
              THEN [s6 EXCEPT !.oil_bottle_capacity_ml =
                                    Val(ToFloat(data.oil_bottle_capacity_ml))]
              ELSE s6
    IN  IF SettingsRaises(data) THEN s1 ELSE s7

\* reset_counters
ResetState(st) ==
    [st EXCEPT !.pump_runtime_minutes = 0,
               !.fan_runtime_minutes = 0,
               !.last_pump_start = None,
               !.last_fan_start = None]

---------------------------------------------------------------------------
(* Persistence of the configuration: save_config / load_config *)

\* the content save_config() leaves in config.json for the state dict st.
\* json.dump(state, f, indent=2) writes the dict item by item; a datetime in
\* last_pump_start / last_fan_start raises TypeError (caught) after the file
\* was truncated and partly written, which leaves no valid JSON document.
save_config(st) ==
    IF IsSet(st.last_pump_start) \/ IsSet(st.last_fan_start)
    THEN Some([valid |-> FALSE])
    ELSE Some([valid |-> TRUE, data |-> st])

\* state.update(saved_state)
Overlay(st, saved) ==
    [k \in DOMAIN st |-> IF k \in DOMAIN saved THEN saved[k] ELSE st[k]]

\* the state dict after load_config() on the defaults d: json.load raises
\* on an invalid document (caught, nothing is updated)
load_config(d, file) ==
    IF IsSet(file) /\ Val(file).valid THEN Overlay(d, Val(file).data) ELSE d

---------------------------------------------------------------------------
(* History Buffer: hvac_history, save_history, load_history, get_history *)

\* 24 * 3600, the horizon in seconds
DAY == 24 * 3600

\* ts.isoformat(): the date part and the time-of-day part of a timestamp
isoformat(ts) == [date |-> ts \div DAY, time |-> ts % DAY]

\* datetime.fromisoformat(text)
fromisoformat(text) == text.date * DAY + text.time

\* the eviction that keeps every sample
Recent_KeepAll(history, t) == history

\* [(ts, s) for ts, s in history if ts.timestamp() > cutoff] at time t
Recent(history, t) ==
    LET cutoff == t - DAY
    IN  SelectSeq(history, LAMBDA e : e[1] > cutoff)

\* [(ts.isoformat(), s) for ts, s in history if ts.timestamp() > cutoff]
RecentIso(history, t) ==
    LET r == Recent(history, t)
    IN  [i \in 1..Len(r) |-> <<isoformat(r[i][1]), r[i][2]>>]

\* get_history that returns the whole buffer
get_history_NoCutoff(history, t) ==
    [i \in 1..Len(history) |-> <<isoformat(history[i][1]), history[i][2]>>]

\* the response of get_history() at time t
get_history(history, t) == RecentIso(history, t)

\* the content save_history() writes to history.json at time t
save_history(history, t) == Some(RecentIso(history, t))

\* hvac_history after load_history()
load_history(file) ==
    IF IsSet(file)
    THEN [i \in 1..Len(Val(file)) |-> <<fromisoformat(Val(file)[i][1]), Val(file)[i][2]>>]
    ELSE <<>>

\* the persistence test of the monitor thread
SaveDue(history) == Len(history) % SAVE_EVERY = 0

---------------------------------------------------------------------------
(* Inputs of the model *)

HMS(h, m, sec) == h * 3600 + m * 60 + sec

T0900 == <<"0", "9", ":", "0", "0">>
T1700 == <<"1", "7", ":", "0", "0">>
T2200 == <<"2", "2", ":", "0", "0">>
T0600 == <<"0", "6", ":", "0", "0">>

\* JSON values of a request body
JNum(n) == [t |-> "num", n |-> n]
JStr(x) == [t |-> "str", s |-> x]
JNull == [t |-> "null"]
JText(x) == [t |-> "text", x |-> x]
JList == [t |-> "list"]

\* times of day at which the process may start
StartTimes == {HMS(12, 0, 0), HMS(21, 59, 55)}

\* datetime.now().time() at the instant time.time() = t
TimeOfDay(t) == (day_offset + t) % HMS(24, 0, 0)

\* request bodies sent to /api/settings
SettingsInputs ==
    {[enabled |-> TRUE],
     [enabled |-> FALSE],
     [business_hours_enabled |-> TRUE,
      business_hours_start |-> T2200, business_hours_end |-> T0600],
     [business_hours_enabled |-> FALSE]}

\* what load_config() finds in config.json: fields of a state dict saved by
\* an earlier run of the program (save_config dumps the whole dict)
PersistedConfigs ==
    {[enabled |-> e, hvac_fan_state |-> h] : e \in BOOLEAN, h \in BOOLEAN}

---------------------------------------------------------------------------
(* The system: initial state and actions *)

InitCommon ==
    /\ ctl = InitCtl
    /\ gpio_pump = FALSE
    /\ gpio_fan = FALSE
    /\ GPIO_AVAILABLE = TRUE
    /\ now = 0
    /\ mon_due = 0
    /\ status = None
    /\ tick_path = "none"
    /\ rise_time = None
    /\ write_failed = FALSE
    /\ ticks_on = [pump |-> 0, fan |-> 0]
    /\ last_switch = None
    /\ gate = None
    /\ history_out = None
    /\ appends = 0
    /\ saves = 0
    /\ tick_err = FALSE
    /\ tick_writes = <<>>
    /\ written = [pump |-> None, fan |-> None]
    /\ req_error = FALSE
    /\ rmw = None
    /\ stop_flag = FALSE
    /\ alive = [control |-> TRUE, monitor |-> TRUE]
    /\ stop_time = None
    /\ exit_time = [control |-> None, monitor |-> None]
    /\ finished = FALSE

\* load_history() when history.json does not exist; the input device is read
\* through gpiozero
InitNoHistory ==
    /\ history_file = None
    /\ hvac_history = load_history(history_file)
    /\ read_path = "device"

\* load_config() when config.json does not exist
InitDefaults ==
    /\ config_loaded = FALSE
    /\ config_file = None
    /\ state = load_config(DefaultState, config_file)

\* load_config() when config.json holds the dict an earlier run saved, which
\* differed from the defaults in the fields of saved
InitFromConfig(saved) ==
    /\ config_loaded = TRUE
    /\ config_file = Some([valid |-> TRUE, data |-> Overlay(DefaultState, saved)])
    /\ state = load_config(DefaultState, config_file)

\* __main__: load_config(), load_history(), init_gpio(), start_threads()
Init ==
    /\ InitCommon
    /\ InitNoHistory
    /\ day_offset \in StartTimes
    /\ \/ InitDefaults
       \/ \E saved \in PersistedConfigs : InitFromConfig(saved)

World ==
    [state |-> state, ctl |-> ctl, gpio_pump |-> gpio_pump, gpio_fan |-> gpio_fan,
     avail |-> GPIO_AVAILABLE, err |-> FALSE, path |-> "none", writes |-> <<>>]

\* `while not stop_flag.is_set()` that never looks at the flag
LoopContinues_Blind(flag) == TRUE

\* the loop condition of both threads, `while not stop_flag.is_set()`
LoopContinues(flag) == ~flag

\* the last value written to each sink once the writes of a tick are added
WrittenAfter(last, writes) ==
    [d \in {"pump", "fan"} |->
        LET idx == {i \in 1..Len(writes) : writes[i][1] = d}
        IN  IF idx = {} THEN last[d]
            ELSE Some(writes[CHOOSE i \in idx : \A j \in idx : j <= i][2])]

\* the end of an iteration of the control thread whose try block left the
\* world w: what it wrote becomes visible, then time.sleep(1)
ControlCommit(w) ==
    /\ state' = w.state
    /\ ctl' = w.ctl
    /\ gpio_pump' = w.gpio_pump
    /\ gpio_fan' = w.gpio_fan
    /\ tick_path' = w.path
    /\ write_failed' = (write_failed \/ w.err)
    /\ tick_err' = w.err
    /\ tick_writes' = w.writes
    /\ written' = WrittenAfter(written, w.writes)
    /\ last_switch' = IF w.state.pump_on # state.pump_on
                      THEN Some(now) ELSE last_switch
    /\ ticks_on' = [pump |-> ticks_on.pump + (IF state.pump_on THEN 1 ELSE 0),
                    fan  |-> ticks_on.fan + (IF state.fan_on THEN 1 ELSE 0)]
    /\ now' = now + TICK
    /\ UNCHANGED <<GPIO_AVAILABLE, stopvars, day_offset, mon_due, status, rise_time, config_loaded, gate,
                   histvars, history_out, config_file, read_path, req_error>>

\* one iteration of the control thread: the try block, then time.sleep(1).
\* limit bounds the clock, fails are the outcomes of a sink write (TRUE: it
\* raises)
ControlStep(limit, fails) ==
    /\ LoopContinues(stop_flag)
    /\ now < limit
    /\ ~IsSet(rmw)
    /\ \E pump_fail \in fails, fan_fail \in fails :
         ControlCommit(ControlBody(World, now, TimeOfDay(now), pump_fail, fan_fail))
    /\ UNCHANGED rmw

\* scheduling of the two threads, which start together and sleep 5 s and 1 s:
\* the monitor thread is never late, it samples at 0, 5, 10, ... before the
\* controller tick of the same second
MonitorFirst == now < mon_due

ControlTick == MonitorFirst /\ ControlStep(MaxTime, BOOLEAN)

\* read_hvac_state(): raw is the pin level (LOW = 0 = fan on), fail: the read
\* of the pin raises. Through the gpiozero input device the exception
\* propagates (raised); through lgpio it is swallowed and False returned;
\* without GPIO the mock value True
read_hvac_state(raw, fail) ==
    IF ~GPIO_AVAILABLE THEN [raised |-> FALSE, value |-> TRUE]
    ELSE IF read_path = "device" THEN [raised |-> fail, value |-> raw = 0]
    ELSE [raised |-> FALSE, value |-> IF fail THEN FALSE ELSE raw = 0]

\* one iteration of the monitor thread (try block or except clause, then
\* time.sleep(5)) whose read found the pin level raw, or failed
MonitorStep(raw, fail) ==
    /\ LoopContinues(stop_flag)
    /\ now >= mon_due
    /\ LET r == read_hvac_state(raw, fail)
           hvac_state == r.value
           appended == Append(hvac_history, <<now, hvac_state>>)
           kept == Recent(appended, now)
       IN  IF r.raised
           THEN UNCHANGED <<state, rise_time, histvars>>
           ELSE /\ state' = [state EXCEPT !.hvac_fan_state = hvac_state]
                /\ rise_time' = IF ~state.hvac_fan_state /\ hvac_state
                                THEN Some(now) ELSE rise_time
                /\ hvac_history' = kept
                /\ appends' = appends + 1
                /\ IF SaveDue(kept)
                   THEN /\ history_file' = save_history(kept, now)
                        /\ saves' = saves + 1
                   ELSE UNCHANGED <<history_file, saves>>
    /\ mon_due' = now + MONITOR_PERIOD
    /\ UNCHANGED <<ctl, gpio_pump, gpio_fan, GPIO_AVAILABLE, stopvars, now, day_offset, status, tick_path,
                   write_failed, config_loaded, ticks_on, last_switch, gate,
                   history_out, config_file, read_path, sinkvars, req_error, rmw>>

\* an iteration of the monitor thread whose read succeeded
MonitorSample(raw) == MonitorStep(raw, FALSE)

MonitorTick == \E raw \in {0, 1} : MonitorSample(raw)

\* an iteration of the monitor thread whose read failed
MonitorReadError == GPIO_AVAILABLE /\ MonitorStep(1, TRUE)

\* POST /api/settings with a request body among inputs; save_config() is
\* reached only when no statement before it raised
SettingsRequest(inputs) ==
    /\ \E data \in inputs :
         /\ state' = ApplySettings(state, data)
         /\ req_error' = SettingsRaises(data)
         /\ config_file' = IF SettingsRaises(data) THEN config_file
                           ELSE save_config(state')
    /\ UNCHANGED <<ctl, gpio_pump, gpio_fan, GPIO_AVAILABLE, stopvars, now, day_offset, mon_due, status,
                   tick_path, rise_time, write_failed, config_loaded, ticks_on, last_switch, gate,
                   histvars, history_out, read_path, sinkvars, rmw>>

\* POST /api/reset_counters
ResetCounters ==
    /\ state' = ResetState(state)
    /\ config_file' = save_config(state')
    /\ ticks_on' = [pump |-> 0, fan |-> 0]
    /\ UNCHANGED <<ctl, gpio_pump, gpio_fan, GPIO_AVAILABLE, stopvars, now, day_offset, mon_due, status,
                   tick_path, rise_time, write_failed, config_loaded, last_switch, gate,
                   histvars, history_out, read_path, sinkvars, req_error, rmw>>

\* GET /api/status, not queried any more once an accumulator reached limit
StatusQuery(limit) ==
    /\ state.pump_runtime_minutes < limit
    /\ state.fan_runtime_minutes < limit
    /\ state' = update_runtime_counters(state, now)
    /\ status' = Some(StatusOf(state'))
    /\ UNCHANGED <<ctl, gpio_pump, gpio_fan, GPIO_AVAILABLE, stopvars, now, day_offset, mon_due, tick_path,
                   rise_time, write_failed, config_loaded, ticks_on, last_switch, gate,
                   histvars, history_out, config_file, read_path, sinkvars, req_error, rmw>>

GetStatus == StatusQuery(MaxRuntime)

UpdateSettings == SettingsRequest(SettingsInputs)

\* GET /api/history
GetHistory ==
    /\ history_out' = Some([at |-> now, size |-> Len(hvac_history),
                             body |-> get_history(hvac_history, now)])
    /\ UNCHANGED <<state, ctl, gpio_pump, gpio_fan, GPIO_AVAILABLE, stopvars, now, day_offset, mon_due,
                   status, tick_path, rise_time, write_failed, config_loaded, ticks_on,
                   last_switch, gate, histvars, config_file, read_path, sinkvars,
                   req_error, rmw>>

Next ==
    \/ ControlTick
    \/ MonitorTick
    \/ MonitorReadError
    \/ UpdateSettings
    \/ ResetCounters
    \/ GetStatus

Spec == Init /\ [][Next]_vars

---------------------------------------------------------------------------
(* Properties of the controller, the accounting and the status query       *)
(* (specification Spec)                                                    *)

GateFired == tick_path \in {"disabled", "outside"}

\* C1: from the default start with the actuators off, and as long as no sink
\* write has raised, after every controller tick that took the disabled
\* branch or the outside-business-hours branch pump_on and fan_on are false.
C1_GateForcesActuatorsOff ==
    (GateFired /\ ~write_failed) => (~state.pump_on /\ ~state.fan_on)

\* a tick found the gate outside while the signal was high and the pump had
\* been running (its start timestamp is still set), and switched it off
C1_Witness ==
    /\ tick_path = "outside"
    /\ ~write_failed
    /\ state.enabled /\ state.hvac_fan_state
    /\ IsSet(state.last_pump_start)
    /\ ~state.pump_on /\ ~state.fan_on /\ ~gpio_pump /\ ~gpio_fan

\* C2: after every controller tick on which the disabled gate fired, the
\* controller's phase state is Idle: arm-detection flag and timestamp cleared,
\* phase-entry timestamp cleared, phase not Off.
C2_GateResetsPhaseState ==
    GateFired =>
        /\ ~ctl.hvac_detected
        /\ ctl.hvac_detected_time = None
        /\ ctl.duty_cycle_start = None
        /\ ctl.on_phase

\* C3: a controller tick turns an actuator on only when at least 10 s (less
\* one tick) have passed since signal_state last rose from false to true.
C3_ArmDelayAfterEveryRise ==
    [][ ( /\ \/ ~state.pump_on /\ state'.pump_on
             \/ ~state.fan_on /\ state'.fan_on
          /\ IsSet(rise_time) )
        => now - Val(rise_time) >= ARM_DELAY - TICK ]_vars

\* C6: each accumulator equals the number of controller ticks its actuator was
\* on since the last reset (in quanta of 1/60 minute).
C6_RuntimeCountsTicksOn ==
    /\ state.pump_runtime_minutes = ticks_on.pump
    /\ state.fan_runtime_minutes = ticks_on.fan

\* C7: except on a reset_counters step, no step decreases an accumulator, and
\* a step that starts with the actuator's flag false leaves its accumulator
\* unchanged.
C7_RuntimeMonotoneAndFrozen ==
    [][ \/ ResetCounters
        \/ /\ state'.pump_runtime_minutes >= state.pump_runtime_minutes
           /\ state'.fan_runtime_minutes >= state.fan_runtime_minutes
           /\ ~state.pump_on => state'.pump_runtime_minutes = state.pump_runtime_minutes
           /\ ~state.fan_on => state'.fan_runtime_minutes = state.fan_runtime_minutes
      ]_vars

\* both accumulators have grown and a tick on which the system was disabled
\* has switched the actuators off again
C7_Witness ==
    /\ state.pump_runtime_minutes > 0 /\ state.fan_runtime_minutes > 0
    /\ ~state.pump_on /\ ~state.fan_on
    /\ tick_path = "disabled"

\* C8: a status query leaves every field of the shared state unchanged.
C8_StatusQueryReadOnly == [][GetStatus => state' = state]_vars

---------------------------------------------------------------------------
(* The business-hours gate on its own (specification SpecGate): the        *)
(* configuration is what load_config() found, the gate is evaluated at     *)
(* chosen times of day.                                                    *)

T170030 == <<"1", "7", ":", "0", "0", ":", "3", "0">>
T900 == <<"9", ":", "0", "0">>      \* malformed: fromisoformat raises

\* business_hours_start / business_hours_end values of the persisted config
GateTexts == {T0900, T1700, T2200, T0600, T170030, T900}

\* times of day at which the gate is evaluated
GateTimes ==
    {HMS(0, 0, 0), HMS(2, 0, 0), HMS(6, 0, 0), HMS(6, 0, 1), HMS(8, 0, 0),
     HMS(9, 0, 0), HMS(12, 0, 0), HMS(17, 0, 0), HMS(17, 0, 1), HMS(21, 59, 59),
     HMS(22, 0, 0), HMS(23, 0, 0), HMS(23, 59, 59)}

InitGate ==
    /\ InitCommon
    /\ InitNoHistory
    /\ day_offset = HMS(12, 0, 0)
    /\ \E e \in BOOLEAN, a \in GateTexts, b \in GateTexts :
         InitFromConfig([business_hours_enabled |-> e,
                         business_hours_start |-> a,
                         business_hours_end |-> b])

\* is_business_hours() called when datetime.now().time() is current_time
GateProbe ==
    /\ \E current_time \in GateTimes :
         gate' = Some([current_time |-> current_time,
                       inside |-> is_business_hours(state, current_time)])
    /\ UNCHANGED <<state, ctl, gpio_pump, gpio_fan, GPIO_AVAILABLE, stopvars, now, day_offset,
                   mon_due, status, tick_path, rise_time, write_failed, config_loaded,
                   ticks_on, last_switch, histvars, history_out, config_file,
                   read_path, sinkvars, req_error, rmw>>

NextGate == GateProbe

SpecGate == InitGate /\ [][NextGate]_vars

\* the time of day, in seconds, that each well-formed text denotes
WellFormed == {T0900, T1700, T2200, T0600, T170030}

SecondsOf(text) ==
    CASE text = T0900 -> 9 * 3600
      [] text = T1700 -> 17 * 3600
      [] text = T2200 -> 22 * 3600
      [] text = T0600 -> 6 * 3600
      [] text = T170030 -> 17 * 3600 + 30

\* <<start, end, time of day, inside>> of the examples of the specification
GateExamples ==
    {<<T0900, T1700, 12 * 3600, TRUE>>, <<T0900, T1700, 8 * 3600, FALSE>>,
     <<T2200, T0600, 23 * 3600, TRUE>>, <<T2200, T0600, 2 * 3600, TRUE>>,
     <<T2200, T0600, 12 * 3600, FALSE>>}

\* C10: the gate's answer is determined by (business_hours_enabled, start, end,
\* now): inside when disabled; when start <= end inside iff start <= now <= end;
\* when start > end inside iff now >= start or now <= end; and the examples
\* 09:00-17:00 / 22:00-06:00 of the specification come out as stated.
C10_GateFunction ==
    IsSet(gate) =>
        LET g == Val(gate)
            a == state.business_hours_start
            b == state.business_hours_end
        IN  /\ ~state.business_hours_enabled => g.inside
            /\ (state.business_hours_enabled /\ a \in WellFormed /\ b \in WellFormed) =>
                  LET s == SecondsOf(a)
                      e == SecondsOf(b)
                  IN  /\ s <= e => (g.inside <=> (s <= g.current_time /\ g.current_time <= e))
                      /\ s > e => (g.inside <=> (g.current_time >= s \/ g.current_time <= e))
            /\ \A x \in GateExamples :
                  (state.business_hours_enabled /\ a = x[1] /\ b = x[2]
                      /\ g.current_time = x[3]) => (g.inside = x[4])

\* the gate was evaluated exactly at the end of a window spanning midnight and
\* answered inside
C10_Witness ==
    /\ IsSet(gate)
    /\ state.business_hours_enabled
    /\ state.business_hours_start = T2200
    /\ state.business_hours_end = T0600
    /\ Val(gate).current_time = HMS(6, 0, 0)
    /\ Val(gate).inside

---------------------------------------------------------------------------
(* The consumption estimator on its own (specification SpecEst): the pump  *)
(* is off, the accumulated runtime is what load_config() found, rate and   *)
(* capacity are set through /api/settings, and /api/status is queried.     *)

\* the largest persisted pump_runtime_minutes, in quanta of 1/60 minute
MaxEstRuntime == 200000

EstRuntimes == {0, 90, 3600, 180000, MaxEstRuntime}

EstValues ==
    {JNum(0 - 5), JNum(0), JNum(1000), JStr(<<"2", "5">>), JStr(<<"-", "4", "0">>),
     JStr(<<"a", "b", "c">>), JNull}

EstInputs ==
    {[oil_usage_rate_ml_per_hour |-> j] : j \in EstValues}
    \cup {[oil_bottle_capacity_ml |-> j] : j \in EstValues}

InitEst ==
    /\ InitCommon
    /\ InitNoHistory
    /\ day_offset = HMS(12, 0, 0)
    /\ \E n \in EstRuntimes : InitFromConfig([pump_runtime_minutes |-> n])

EstSettings == SettingsRequest(EstInputs)

EstStatus == StatusQuery(MaxEstRuntime + 1)

NextEst ==
    \/ EstSettings
    \/ EstStatus

SpecEst == InitEst /\ [][NextEst]_vars

\* C9: in every status response used_ml = runtime/60 * rate; remaining_ml is
\* never negative, equals capacity - used_ml whenever used_ml <= capacity and
\* is 0 otherwise; percentage = remaining_ml / capacity * 100 when capacity > 0
\* and 0 otherwise, and is never negative (amounts in 1/3600 ml).
C9_Estimator ==
    IsSet(status) =>
        LET r == Val(status)
            capacity == r.capacity * 3600
        IN  /\ r.used = r.runtime * r.rate
            /\ r.remaining >= 0
            /\ r.used <= capacity => r.remaining = capacity - r.used
            /\ r.used > capacity => r.remaining = 0
            /\ r.capacity > 0 => /\ r.percentage[1] = r.remaining
                                 /\ r.percentage[2] * 100 = capacity
            /\ r.capacity <= 0 => r.percentage[1] = 0
            /\ r.percentage[1] >= 0 /\ r.percentage[2] > 0
            /\ r.oil_remaining_ml >= 0
            /\ r.oil_percentage >= 0

\* a status response computed when more oil was used than the bottle holds
C9_Witness ==
    /\ IsSet(status)
    /\ Val(status).capacity > 0
    /\ Val(status).used > Val(status).capacity * 3600
    /\ Val(status).remaining = 0
    /\ Val(status).oil_percentage = 0

---------------------------------------------------------------------------
(* The duty cycle under a steady signal (specification SpecCycle): enabled *)
(* and the preset come from config.json, business hours are off, the       *)
(* signal is high from the start and stays high, no sink write fails and   *)
(* nobody calls the API.                                                   *)

\* the clock stops here; two full ON/OFF cycles of the longest preset fit
MaxCycleTime == 850

InitCycle ==
    /\ InitCommon
    /\ InitNoHistory
    /\ day_offset = HMS(12, 0, 0)
    /\ \E dc \in DOMAIN DUTY_CYCLES :
         InitFromConfig([enabled |-> TRUE, duty_cycle |-> dc, hvac_fan_state |-> TRUE])

CycleTick == ControlStep(MaxCycleTime, {FALSE})

NextCycle == CycleTick

SpecCycle == InitCycle /\ [][NextCycle]_vars

Within(d, n) == n - TICK <= d /\ d <= n + TICK

\* C4: with the signal steadily high the actuators first come on 10 s (+-1
\* tick) after the start, every ON period then lasts on_seconds (+-1 tick) and
\* every OFF period off_seconds (+-1 tick), pump and fan switch together, and
\* no period outlasts its length by more than a tick (the alternation goes on).
C4_DutyCycleTiming ==
    [][ LET N == DUTY_CYCLES[state.duty_cycle][1]
            M == DUTY_CYCLES[state.duty_cycle][2]
        IN  /\ state'.pump_on = state'.fan_on
            /\ (state.pump_on /\ ~state'.pump_on) =>
                  Within(now - Val(last_switch), N)
            /\ (~state.pump_on /\ state'.pump_on /\ IsSet(last_switch)) =>
                  Within(now - Val(last_switch), M)
            /\ (~state.pump_on /\ state'.pump_on /\ ~IsSet(last_switch)) =>
                  Within(now, ARM_DELAY)
            /\ ~IsSet(last_switch') => now' <= ARM_DELAY + TICK
            /\ IsSet(last_switch') =>
                  now' - Val(last_switch') <= (IF state'.pump_on THEN N ELSE M) + TICK
      ]_vars

\* under the longest preset the third ON period is running
C4_Witness ==
    /\ state.duty_cycle = "360s_30s"
    /\ state.pump_on /\ state.fan_on
    /\ state.pump_runtime_minutes >= 2 * 360
    /\ tick_path = "on"

---------------------------------------------------------------------------
(* Signal loss (specification SpecDrop): as SpecCycle with the preset      *)
(* 60s_30s, but the monitor thread samples a signal that comes and goes.   *)

\* the clock stops here, a few ticks into the first Off phase
MaxDropTime == 80

InitDrop ==
    /\ InitCommon
    /\ InitNoHistory
    /\ day_offset = HMS(12, 0, 0)
    /\ \E h \in BOOLEAN :
         InitFromConfig([enabled |-> TRUE, duty_cycle |-> "60s_30s", hvac_fan_state |-> h])

\* the signal changes at most this often during a run
MaxFlips == 2

\* number of changes of the signal along the recorded samples
Flips(history) ==
    Cardinality({i \in 1..(Len(history) - 1) : history[i][2] # history[i + 1][2]})

DropTick == MonitorFirst /\ ControlStep(MaxDropTime, {FALSE})

\* an iteration of the monitor thread, the signal staying within MaxFlips
DropMonitor ==
    \E raw \in {0, 1} :
        /\ Flips(Append(hvac_history, <<now, raw = 0>>)) <= MaxFlips
        /\ MonitorSample(raw)

NextDrop ==
    \/ DropTick
    \/ DropMonitor

SpecDrop == InitDrop /\ [][NextDrop]_vars

\* C5: after a controller tick that found the signal low (enabled, gate inside,
\* writes succeeding) both actuators are off and the controller is Idle: arm
\* detection and phase-entry timestamp cleared; so whenever an actuator is on
\* a full arm delay has passed since the controller last armed, and an Off
\* phase only follows an On phase of the same arming.
C5_SignalLossReturnsToIdle ==
    /\ tick_path = "signal_low" =>
          /\ ~state.pump_on /\ ~state.fan_on /\ ~gpio_pump /\ ~gpio_fan
          /\ ~ctl.hvac_detected
          /\ ctl.hvac_detected_time = None
          /\ ctl.duty_cycle_start = None
    /\ state.pump_on =>
          /\ IsSet(ctl.hvac_detected_time) /\ IsSet(last_switch)
          /\ Val(last_switch) - Val(ctl.hvac_detected_time) >= ARM_DELAY
    /\ (IsSet(ctl.duty_cycle_start) /\ ~ctl.on_phase) =>
          /\ IsSet(ctl.hvac_detected_time)
          /\ Val(ctl.duty_cycle_start) - Val(ctl.hvac_detected_time)
                >= ARM_DELAY + DUTY_CYCLES[state.duty_cycle][1]

\* the signal was found low during the Off phase (on_phase is still False)
C5_Witness ==
    /\ tick_path = "signal_low"
    /\ ~ctl.on_phase
    /\ ~state.pump_on /\ ~state.fan_on
    /\ state.pump_runtime_minutes > 0

---------------------------------------------------------------------------
(* The history snapshot (specification SpecHist): history.json holds what  *)
(* an earlier run saved, the system stays disabled, the monitor thread     *)
(* samples every 5 s and /api/history is called at any time.               *)

\* the clock stops here
MaxHistTime == 12

\* n samples taken every 5 s from the time first on, as save_history wrote them
SavedSamples(first, n) ==
    [i \in 1..n |-> <<isoformat(first + MONITOR_PERIOD * (i - 1)), i % 2 = 0>>]

\* contents of history.json at startup: none, samples around 24 h before the
\* start (the process was down for a day), samples of the last seconds
HistoryFiles ==
    {None, Some(SavedSamples(0 - DAY - 8, 4)), Some(SavedSamples(0 - 20, 3))}

InitHist ==
    /\ InitCommon
    /\ InitDefaults
    /\ day_offset = HMS(12, 0, 0)
    /\ read_path = "device"
    /\ history_file \in HistoryFiles
    /\ hvac_history = load_history(history_file)

HistTick == MonitorFirst /\ ControlStep(MaxHistTime, {FALSE})

NextHist ==
    \/ HistTick
    \/ MonitorTick
    \/ GetHistory

SpecHist == InitHist /\ [][NextHist]_vars

\* a is b with some elements left out, the others in the same order, once
\* the timestamps of b are formatted
RECURSIVE IsSubseqIso(_, _)
IsSubseqIso(a, b) ==
    IF a = <<>> THEN TRUE
    ELSE IF b = <<>> THEN FALSE
    ELSE IF a[1][1] = isoformat(b[1][1]) /\ a[1][2] = b[1][2]
    THEN IsSubseqIso(Tail(a), Tail(b))
    ELSE IsSubseqIso(a, Tail(b))

\* C11: for every call of /api/history at time t and every buffer content, no
\* sample of the response is older than t - 24 h, and the response lists
\* samples of the buffer in their buffer order.
C11_SnapshotWithinHorizon ==
    [][ GetHistory =>
          LET out == Val(history_out').body
          IN  /\ \A i \in 1..Len(out) : fromisoformat(out[i][1]) >= now - DAY
              /\ IsSubseqIso(out, hvac_history)
      ]_vars

\* a call found in the buffer a sample that had aged out since the last
\* eviction, left it out and returned at least two samples
C11_Witness ==
    /\ IsSet(history_out)
    /\ Len(Val(history_out).body) < Val(history_out).size
    /\ Len(Val(history_out).body) >= 2

---------------------------------------------------------------------------
(* Validation of configuration updates (specification SpecSettings): from  *)
(* the defaults, any sequence of requests to /api/settings whose bodies    *)
(* carry valid and invalid values.                                         *)

\* values sent as duty_cycle: two preset keys, an unknown key, a number, null
\* and an array
DutyValues ==
    {JText("60s_30s"), JText("360s_30s"), JText("5s_5s"), JNum(60), JNull, JList}

\* values sent as rate or capacity
NumberValues ==
    {JNum(20), JStr(<<"2", "5">>), JStr(<<"a", "b", "c">>), JNull, JList}

\* request bodies: one field, or duty_cycle / rate together with another field
SettingsTests ==
    {[duty_cycle |-> d] : d \in DutyValues}
    \cup {[oil_usage_rate_ml_per_hour |-> n] : n \in NumberValues}
    \cup {[enabled |-> e, duty_cycle |-> d] : e \in BOOLEAN, d \in DutyValues}
    \cup {[duty_cycle |-> d, oil_usage_rate_ml_per_hour |-> n] :
            d \in DutyValues, n \in NumberValues}
    \cup {[oil_usage_rate_ml_per_hour |-> n, oil_bottle_capacity_ml |-> c] :
            n \in NumberValues, c \in NumberValues}

InitSettings ==
    /\ InitCommon
    /\ InitNoHistory
    /\ InitDefaults
    /\ day_offset = HMS(12, 0, 0)

SettingsTest == SettingsRequest(SettingsTests)

NextSettings == SettingsTest

SpecSettings == InitSettings /\ [][NextSettings]_vars

\* the number a test value denotes, <<>> for a value that is no number
NumberDenoted(j) ==
    IF j = JNum(20) THEN Some(20)
    ELSE IF j = JStr(<<"2", "5">>) THEN Some(25)
    ELSE None

\* what the update with body data has to do to each field it carries
SettingsExpected(data) ==
    /\ "enabled" \in DOMAIN data => state'.enabled = data.enabled
    /\ "duty_cycle" \in DOMAIN data =>
          IF data.duty_cycle \in {JText("60s_30s"), JText("360s_30s")}
          THEN state'.duty_cycle = data.duty_cycle.x
          ELSE state'.duty_cycle = state.duty_cycle
    /\ "oil_usage_rate_ml_per_hour" \in DOMAIN data =>
          state'.oil_usage_rate_ml_per_hour =
              IF IsSet(NumberDenoted(data.oil_usage_rate_ml_per_hour))
              THEN Val(NumberDenoted(data.oil_usage_rate_ml_per_hour))
              ELSE state.oil_usage_rate_ml_per_hour
    /\ "oil_bottle_capacity_ml" \in DOMAIN data =>
          state'.oil_bottle_capacity_ml =
              IF IsSet(NumberDenoted(data.oil_bottle_capacity_ml))
              THEN Val(NumberDenoted(data.oil_bottle_capacity_ml))
              ELSE state.oil_bottle_capacity_ml

\* C12: after any sequence of updates from the defaults duty_cycle is a key of
\* the preset table and no update has raised; an update leaves duty_cycle
\* unchanged when it carries an unknown value, leaves rate / capacity unchanged
\* when it carries a non-numeric value, and applies every valid field it carries.
C12_InvalidValuesIgnored ==
    /\ [](state.duty_cycle \in DOMAIN DUTY_CYCLES /\ ~req_error)
    /\ [][ \A data \in SettingsTests :
              SettingsRequest({data}) => SettingsExpected(data) ]_vars

---------------------------------------------------------------------------
(* Restart from the persisted configuration (specification SpecRestart):   *)
(* the process is killed at any moment (no shutdown code runs) and started *)
(* again, which loads the config.json and history.json the previous run    *)
(* left behind.                                                            *)

\* the clock stops here
MaxRestartTime == 12

\* the process dies and __main__ runs again: the module globals get their
\* initial values, load_config(), load_history(), init_gpio() (both outputs
\* are created with initial_value=False), start_threads()
Restart ==
    /\ state' = load_config(DefaultState, config_file)
    /\ config_loaded' = (IsSet(config_file) /\ Val(config_file).valid)
    /\ hvac_history' = load_history(history_file)
    /\ ctl' = InitCtl
    /\ gpio_pump' = FALSE
    /\ gpio_fan' = FALSE
    /\ mon_due' = now
    /\ status' = None
    /\ tick_path' = "none"
    /\ rise_time' = None
    /\ write_failed' = FALSE
    /\ ticks_on' = [pump |-> 0, fan |-> 0]
    /\ last_switch' = None
    /\ history_out' = None
    /\ appends' = 0
    /\ saves' = 0
    /\ tick_err' = FALSE
    /\ tick_writes' = <<>>
    /\ written' = [pump |-> None, fan |-> None]
    /\ req_error' = FALSE
    /\ rmw' = None
    /\ UNCHANGED <<GPIO_AVAILABLE, stopvars, now, day_offset, gate, history_file, config_file,
                   read_path>>

InitRestart ==
    /\ InitCommon
    /\ InitNoHistory
    /\ InitDefaults
    /\ day_offset = HMS(12, 0, 0)

RestartTick == MonitorFirst /\ ControlStep(MaxRestartTime, BOOLEAN)

RestartEnable == SettingsRequest({[enabled |-> TRUE]})

NextRestart ==
    \/ RestartTick
    \/ MonitorTick
    \/ RestartEnable
    \/ ResetCounters
    \/ Restart

SpecRestart == InitRestart /\ [][NextRestart]_vars

\* the level of a sink whose last written value is o (off before any write)
SinkLevel(o) == IF IsSet(o) THEN Val(o) ELSE FALSE

\* C13: in every reachable state pump_on (fan_on) equals the value last
\* written to the pump (fan) sink by the running process, the sink being off
\* before any write; also after a start from the persisted configuration and
\* across failed writes.
C13_FlagsMirrorSink ==
    /\ state.pump_on = SinkLevel(written.pump)
    /\ state.fan_on = SinkLevel(written.fan)

---------------------------------------------------------------------------
(* Properties of the shared actuator fields (specification Spec)           *)

\* C14: after every completed operation last_pump_start is present iff pump_on
\* is true, and last_fan_start is present iff fan_on is true.
C14_StartedAtIffOn ==
    /\ IsSet(state.last_pump_start) <=> state.pump_on
    /\ IsSet(state.last_fan_start) <=> state.fan_on

---------------------------------------------------------------------------
(* Failing reads of the signal (specification SpecRead): init_gpio() has   *)
(* set up either the gpiozero input device or the lgpio handle, and a read *)
(* of the pin may fail on any monitor tick.                                *)

\* the clock stops here
MaxReadTime == 12

InitRead ==
    /\ InitCommon
    /\ InitDefaults
    /\ day_offset = HMS(12, 0, 0)
    /\ history_file = None
    /\ hvac_history = load_history(history_file)
    /\ read_path \in {"device", "lgpio"}

ReadTick == MonitorFirst /\ ControlStep(MaxReadTime, {FALSE})

NextRead ==
    \/ ReadTick
    \/ MonitorTick
    \/ MonitorReadError

SpecRead == InitRead /\ [][NextRead]_vars

\* C15: a monitor tick whose read fails, on either read path, leaves
\* hvac_fan_state as it was, and the monitor sleeps its 5 s and reads again.
C15_ReadFailureKeepsSignal ==
    [][ MonitorReadError =>
          /\ state'.hvac_fan_state = state.hvac_fan_state
          /\ mon_due' = now + MONITOR_PERIOD ]_vars

\* the controller intends both actuators off after the last tick
WantsOff == tick_path \in {"disabled", "outside", "signal_low"}

\* C16: a controller tick changes an actuator flag only together with a write
\* to that sink that succeeded (the flag of a failed write is unchanged), and
\* a later tick whose writes succeed establishes the intended state: after a
\* tick that ran without error on the disabled gate, outside business hours or
\* with the signal low, pump_on and fan_on are false, also when an earlier
\* tick had failed after one of its two writes.
C16_FailedWriteRetried ==
    /\ [][ /\ state'.pump_on # state.pump_on =>
                \E i \in 1..Len(tick_writes') : tick_writes'[i] = <<"pump", state'.pump_on>>
           /\ state'.fan_on # state.fan_on =>
                \E i \in 1..Len(tick_writes') : tick_writes'[i] = <<"fan", state'.fan_on>>
         ]_vars
    /\ []((WantsOff /\ ~tick_err) => (~state.pump_on /\ ~state.fan_on))

\* C17: pump and fan are driven together: at the end of every controller tick
\* that did not end in its except clause pump_on equals fan_on (no actuator
\* stays on while the other is off across ticks).
C17_PumpAndFanTogether ==
    ~tick_err => (state.pump_on = state.fan_on)

---------------------------------------------------------------------------
(* Unsynchronised updates of the accumulators (specification SpecRace):    *)
(* nothing locks the state dict. `state['pump_runtime_minutes'] += elapsed` *)
(* of the control thread reads the item, adds, and stores it; the request  *)
(* threads of Flask may run between the read and the store.                *)

\* the clock stops here
MaxRaceTime == 14

InitRace ==
    /\ InitCommon
    /\ InitNoHistory
    /\ day_offset = HMS(12, 0, 0)
    /\ InitFromConfig([enabled |-> TRUE, hvac_fan_state |-> TRUE])

\* a tick of the control thread that no other thread interrupts
RaceTick == MonitorFirst /\ ControlStep(MaxRaceTime, {FALSE})

\* the control thread starts a tick and, in update_runtime_counters, has read
\* state['pump_runtime_minutes'] for the `+=`
RaceLoad ==
    /\ LoopContinues(stop_flag)
    /\ MonitorFirst
    /\ now < MaxRaceTime
    /\ ~IsSet(rmw)
    /\ state.pump_on /\ IsSet(state.last_pump_start)
    /\ rmw' = Some(state.pump_runtime_minutes)
    /\ UNCHANGED <<state, ctl, gpio_pump, gpio_fan, GPIO_AVAILABLE, stopvars, now, day_offset, mon_due,
                   status, tick_path, rise_time, write_failed, config_loaded, ticks_on,
                   last_switch, gate, histvars, history_out, config_file, read_path,
                   sinkvars, req_error>>

\* the state dict once the pending `+=` has stored read + elapsed and the
\* rest of update_runtime_counters (the fan half) has run
StoreThenRest(st, read, t) ==
    [update_runtime_counters(st, t) EXCEPT
        !.pump_runtime_minutes = read + 1,
        !.last_pump_start = st.last_pump_start]

\* the control thread stores the sum and finishes its tick
RaceStore ==
    /\ IsSet(rmw)
    /\ ControlCommit(ControlBranches(
            [World EXCEPT !.state = StoreThenRest(state, Val(rmw), now)],
            now, TimeOfDay(now), FALSE, FALSE))
    /\ rmw' = None

NextRace ==
    \/ RaceTick
    \/ RaceLoad
    \/ RaceStore
    \/ MonitorTick
    \/ ResetCounters
    \/ GetStatus

SpecRace == InitRace /\ [][NextRace]_vars

\* C18: no update is lost when a counter reset or a status query runs between
\* the read and the store of the controller's `+=`: the store leaves the
\* accumulator one quantum above the value it has at that moment (after an
\* interleaved reset: one quantum, not the value from before the reset plus one).
C18_NoLostUpdate ==
    [][ RaceStore =>
          state'.pump_runtime_minutes = state.pump_runtime_minutes + 1 ]_vars

---------------------------------------------------------------------------
(* Persistence of the history (specification SpecSave): as SpecHist, with  *)
(* a history.json that holds up to an hour of samples of the previous run. *)

\* the clock stops here
MaxSaveTime == 16

\* contents of history.json at startup: none, the last 59 samples before the
\* start, 60 samples that are about to leave the 24 h horizon
SaveFiles ==
    {None,
     Some(SavedSamples(0 - MONITOR_PERIOD * (SAVE_EVERY - 1), SAVE_EVERY - 1)),
     Some(SavedSamples(1 - DAY, SAVE_EVERY))}

InitSave ==
    /\ InitCommon
    /\ InitDefaults
    /\ day_offset = HMS(12, 0, 0)
    /\ read_path = "device"
    /\ history_file \in SaveFiles
    /\ hvac_history = load_history(history_file)

SaveTick == MonitorFirst /\ ControlStep(MaxSaveTime, {FALSE})

NextSave ==
    \/ SaveTick
    \/ MonitorTick

SpecSave == InitSave /\ [][NextSave]_vars

\* C19: the k-th successful append of the run triggers save_history() iff k
\* is a multiple of 60, i.e. after k appends the monitor has saved k div 60
\* times; also with a buffer filled at startup and once eviction removes
\* samples.
C19_SaveEvery60thAppend == saves = appends \div SAVE_EVERY

---------------------------------------------------------------------------
(* The writes to the Actuator Sinks (specification SpecSink): the system   *)
(* starts enabled with the signal high, is disabled and enabled again      *)
(* through /api/settings, and any write to a sink may raise.               *)

\* the clock stops here
MaxSinkTime == 15

InitSink ==
    /\ InitCommon
    /\ InitNoHistory
    /\ day_offset = HMS(12, 0, 0)
    /\ InitFromConfig([enabled |-> TRUE, hvac_fan_state |-> TRUE])

SinkTick == MonitorFirst /\ ControlStep(MaxSinkTime, BOOLEAN)

SinkSettings == SettingsRequest({[enabled |-> TRUE], [enabled |-> FALSE]})

NextSink ==
    \/ SinkTick
    \/ MonitorTick
    \/ SinkSettings

SpecSink == InitSink /\ [][NextSink]_vars

\* C20: in every reachable state set_pump(x) / set_fan(x) with x the current
\* pump_on / fan_on writes to no sink and changes nothing; and every value a
\* controller tick writes to a sink differs from the value last written to
\* that sink (each sink is written at most once per tick).
C20_GuardedIdempotentWrites ==
    /\ [](\A fail \in BOOLEAN :
            /\ set_pump(World, state.pump_on, now, fail) = World
            /\ set_fan(World, state.fan_on, now, fail) = World)
    /\ [][ now' # now =>
             \A i \in 1..Len(tick_writes') :
                /\ written[tick_writes'[i][1]] # Some(tick_writes'[i][2])
                /\ \A j \in 1..(i - 1) : tick_writes'[j][1] # tick_writes'[i][1]
         ]_vars

\* after a write to a sink had raised, a tick writes ON to both sinks for the
\* second time (the pump has run before and was switched off in between)
C20_Witness ==
    /\ write_failed
    /\ tick_writes = <<<<"pump", TRUE>>, <<"fan", TRUE>>>>
    /\ state.pump_runtime_minutes > 0

---------------------------------------------------------------------------
(* Shutdown (specification SpecStop): the system runs enabled with the     *)
(* signal high; at any moment app.run() returns and the finally block of   *)
(* __main__ sets stop_flag, closes the devices and saves both files, while *)
(* the two threads come back from their sleep and test the flag.           *)

\* the clock stops here
MaxStopTime == 13

InitStop ==
    /\ InitCommon
    /\ InitNoHistory
    /\ day_offset = HMS(12, 0, 0)
    /\ InitFromConfig([enabled |-> TRUE, hvac_fan_state |-> TRUE])

StopTick == MonitorFirst /\ ControlStep(MaxStopTime, BOOLEAN)

\* stop_flag.set() in the finally block of __main__
RaiseStop ==
    /\ ~stop_flag
    /\ stop_flag' = TRUE
    /\ stop_time' = Some(now)
    /\ UNCHANGED <<state, ctl, gpio_pump, gpio_fan, GPIO_AVAILABLE, now, day_offset, mon_due,
                   status, tick_path, rise_time, write_failed, config_loaded, ticks_on,
                   last_switch, gate, histvars, history_out, config_file, read_path,
                   sinkvars, req_error, rmw, alive, exit_time, finished>>

\* the level of an output line once its device was closed: close() writes
\* nothing, the line is released and what was high may stay high or drop
Released(level) == {FALSE, level}

\* the rest of the finally block: cleanup_gpio(), save_config(),
\* save_history()
Cleanup ==
    /\ stop_flag
    /\ ~finished
    /\ gpio_pump' \in Released(gpio_pump)
    /\ gpio_fan' \in Released(gpio_fan)
    /\ config_file' = save_config(state)
    /\ history_file' = save_history(hvac_history, now)
    /\ finished' = TRUE
    /\ UNCHANGED <<state, ctl, GPIO_AVAILABLE, now, day_offset, mon_due, status, tick_path,
                   rise_time, write_failed, config_loaded, ticks_on, last_switch, gate,
                   hvac_history, appends, saves, history_out, read_path, sinkvars,
                   req_error, rmw, stop_flag, alive, stop_time, exit_time>>

\* the control thread comes back from time.sleep(1), finds the loop
\* condition false and returns
ControlExit ==
    /\ alive.control
    /\ ~LoopContinues(stop_flag)
    /\ alive' = [alive EXCEPT !.control = FALSE]
    /\ exit_time' = [exit_time EXCEPT !.control = Some(now)]
    /\ UNCHANGED <<state, ctl, gpio_pump, gpio_fan, GPIO_AVAILABLE, now, day_offset, mon_due,
                   status, tick_path, rise_time, write_failed, config_loaded, ticks_on,
                   last_switch, gate, histvars, history_out, config_file, read_path,
                   sinkvars, req_error, rmw, stop_flag, stop_time, finished>>

\* the monitor thread comes back from time.sleep(5), at mon_due if that is
\* still to come, finds the loop condition false and returns
MonitorExit ==
    /\ alive.monitor
    /\ ~LoopContinues(stop_flag)
    /\ alive' = [alive EXCEPT !.monitor = FALSE]
    /\ exit_time' = [exit_time EXCEPT !.monitor = Some(Max(now, mon_due))]
    /\ UNCHANGED <<state, ctl, gpio_pump, gpio_fan, GPIO_AVAILABLE, now, day_offset, mon_due,
                   status, tick_path, rise_time, write_failed, config_loaded, ticks_on,
                   last_switch, gate, histvars, history_out, config_file, read_path,
                   sinkvars, req_error, rmw, stop_flag, stop_time, finished>>

NextStop ==
    \/ StopTick
    \/ MonitorTick
    \/ MonitorReadError
    \/ RaiseStop
    \/ Cleanup
    \/ ControlExit
    \/ MonitorExit

\* a thread that is back from its sleep tests the flag and returns, and the
\* finally block runs on: none of them waits for ever
SpecStop ==
    /\ InitStop
    /\ [][NextStop]_vars
    /\ WF_vars(ControlExit)
    /\ WF_vars(MonitorExit)
    /\ WF_vars(Cleanup)

\* the sleep of each loop
Period == [control |-> TICK, monitor |-> MONITOR_PERIOD]

\* C21: once stop_flag is set no thread starts another iteration (neither
\* the clock of the controller nor the monitor's next due time moves, the
\* controller's locals, the sink writes and the history appends stay as they
\* are); each thread leaves its loop, and it does so no later than one of
\* its own sleep intervals after the flag was set - also when its last
\* iteration ended in the except clause.
C21_LoopsExitWithinOneTick ==
    /\ [][ stop_flag =>
             /\ now' = now
             /\ mon_due' = mon_due
             /\ ctl' = ctl
             /\ appends' = appends
             /\ written' = written
         ]_vars
    /\ [](\A th \in {"control", "monitor"} :
            ~alive[th] =>
               /\ IsSet(exit_time[th]) /\ IsSet(stop_time)
               /\ Val(exit_time[th]) >= Val(stop_time)
               /\ Val(exit_time[th]) - Val(stop_time) <= Period[th])
    /\ (stop_flag ~> (~alive.control /\ ~alive.monitor))

\* both threads have returned after a stop raised while the monitor was in
\* its sleep, and the controller's last iteration had ended in an error
C21_Witness ==
    /\ ~alive.control
    /\ ~alive.monitor
    /\ tick_err
    /\ Val(exit_time.monitor) > Val(stop_time)

\* C22: once the finally block has run to its end and the control thread has
\* returned, pump_on and fan_on are false and the last value written to
\* each sink is not ON.
C22_ShutdownLeavesActuatorsOff ==
    (finished /\ ~alive.control) =>
        /\ ~state.pump_on
        /\ ~state.fan_on
        /\ written.pump # Some(TRUE)
        /\ written.fan # Some(TRUE)

---------------------------------------------------------------------------
(* Change of the preset (specification SpecPreset): the system runs        *)
(* enabled with the signal steadily high, config.json named one of the     *)
(* presets or a key that is not in DUTY_CYCLES, and /api/settings changes  *)
(* the preset at any moment.                                               *)

\* the clock stops here
MaxPresetTime == 115

\* the presets the requests choose among
PresetKeys == {"60s_30s", "90s_30s", "60s_120s"}

\* a duty_cycle that config.json can hold and DUTY_CYCLES does not
UnknownKey == "30s_30s"

InitPreset ==
    /\ InitCommon
    /\ InitNoHistory
    /\ day_offset = HMS(12, 0, 0)
    /\ \E dc \in PresetKeys \cup {UnknownKey} :
         InitFromConfig([enabled |-> TRUE, duty_cycle |-> dc, hvac_fan_state |-> TRUE])

PresetTick == ControlStep(MaxPresetTime, {FALSE})

PresetChange ==
    /\ now < MaxPresetTime
    /\ SettingsRequest({[duty_cycle |-> JText(dc)] : dc \in PresetKeys})

NextPreset ==
    \/ PresetTick
    \/ PresetChange

SpecPreset == InitPreset /\ [][NextPreset]_vars

\* C23: a controller tick that finds the controller in a phase compares the
\* time since the phase was entered with the on_seconds (On) or off_seconds
\* (Off) of the preset state.duty_cycle names at that tick, (60, 120) if it
\* names none: it leaves the phase iff that time has been reached, and it
\* keeps the arm state; a change of the preset changes neither the
\* phase-entry timestamp nor the arm state nor the phase.
C23_LivePresetTiming ==
    /\ [][ (now' # now /\ IsSet(ctl.duty_cycle_start)) =>
             LET times == IF state.duty_cycle \in DOMAIN DUTY_CYCLES
                          THEN DUTY_CYCLES[state.duty_cycle]
                          ELSE <<60, 120>>
                 elapsed == now - Val(ctl.duty_cycle_start)
                 length == IF ctl.on_phase THEN times[1] ELSE times[2]
             IN  /\ ctl'.hvac_detected = ctl.hvac_detected
                 /\ ctl'.hvac_detected_time = ctl.hvac_detected_time
                 /\ IF elapsed >= length
                    THEN /\ ctl'.on_phase = ~ctl.on_phase
                         /\ ctl'.duty_cycle_start = Some(now)
                         /\ ~ctl'.on_phase => (~state'.pump_on /\ ~state'.fan_on)
                    ELSE /\ ctl'.on_phase = ctl.on_phase
                         /\ ctl'.duty_cycle_start = ctl.duty_cycle_start
                         /\ state'.pump_on = ctl.on_phase
                         /\ state'.fan_on = ctl.on_phase
         ]_vars
    /\ [][ state'.duty_cycle # state.duty_cycle => ctl' = ctl ]_vars

\* the first On phase was entered under a preset of 90 s, the preset was then
\* changed to one of 60 s when more than 60 s had passed, and the next tick
\* has left the phase at once
C23_Witness ==
    /\ tick_path = "to_off"
    /\ now <= 100
    /\ state.duty_cycle = "60s_30s"
    /\ state.pump_runtime_minutes > 61
    /\ ~state.pump_on /\ ~state.fan_on

---------------------------------------------------------------------------
(* Malformed business hours (specification SpecHours): the system runs     *)
(* enabled with the signal high and business hours 09:00-17:00 enabled, at *)
(* noon or at 22:00, and /api/settings stores whatever strings it is sent  *)
(* as business_hours_start and business_hours_end.                         *)

\* the clock stops here
MaxHoursTime == 14

T2500 == <<"2", "5", ":", "0", "0">>        \* no hour 25
TNoon == <<"n", "o", "o", "n">>
TEmpty == <<>>

\* strings on which time.fromisoformat raises ValueError
MalformedTexts == {T900, T2500, TNoon, TEmpty}

\* the strings the requests send
HoursTexts == {T0900, T1700} \cup MalformedTexts

InitHours ==
    /\ InitCommon
    /\ InitNoHistory
    /\ day_offset \in {HMS(12, 0, 0), HMS(22, 0, 0)}
    /\ InitFromConfig([enabled |-> TRUE, hvac_fan_state |-> TRUE,
                       business_hours_enabled |-> TRUE])

HoursTick == ControlStep(MaxHoursTime, {FALSE})

HoursChange ==
    SettingsRequest({[business_hours_start |-> x] : x \in HoursTexts}
                    \cup {[business_hours_end |-> x] : x \in HoursTexts})

NextHours ==
    \/ HoursTick
    \/ HoursChange

SpecHours == InitHours /\ [][NextHours]_vars

\* business hours are enabled and one of the two strings is malformed
BadHours ==
    /\ state.business_hours_enabled
    /\ \/ state.business_hours_start \in MalformedTexts
       \/ state.business_hours_end \in MalformedTexts

\* C24: while business hours are enabled and business_hours_start or
\* business_hours_end is malformed, the gate answers inside at every time of
\* day; a controller tick in such a state does not take the outside branch
\* and does not end in an error but follows the signal (here high: it waits
\* for the arm delay or runs the duty cycle), and the control thread stays
\* in its loop.
C24_MalformedHoursFailOpen ==
    /\ [](BadHours => \A t \in GateTimes : is_business_hours(state, t))
    /\ [](alive.control)
    /\ [][ (BadHours /\ now' # now) =>
             /\ tick_path' \in {"arm_wait", "on", "to_off", "off", "to_on"}
             /\ ~tick_err'
             /\ (now - Val(ctl'.hvac_detected_time) >= ARM_DELAY) =>
                    (state'.pump_on /\ state'.fan_on)
         ]_vars

\* at 22:00, outside hours that end at 17:00, the start string is malformed
\* and the controller has switched the actuators on
C24_Witness ==
    /\ day_offset = HMS(22, 0, 0)
    /\ state.business_hours_end = T1700
    /\ state.business_hours_start \in MalformedTexts
    /\ tick_path = "on"
    /\ state.pump_on /\ state.fan_on

---------------------------------------------------------------------------
(* The History Buffer after a monitor tick (specification SpecHist)        *)

\* the fields of Shared Control State that describe the actuators
ActuatorFields ==
    {"pump_on", "fan_on", "last_pump_start", "last_fan_start",
     "pump_runtime_minutes", "fan_runtime_minutes"}

\* C25: after every monitor tick that appended a sample (at time now) the
\* buffer is what was there before plus the new sample, less some samples
\* and in the same order; its timestamps ascend; its last element is
\* <<now, value read>>; every timestamp is later than now - 24 h and not later
\* than now; no actuator field of state and no sink has changed.
C25_BufferAfterMonitorTick ==
    [][ (appends' = appends + 1) =>
          LET h == hvac_history'
              iso(b) == [i \in 1..Len(b) |-> <<isoformat(b[i][1]), b[i][2]>>]
          IN  /\ h # <<>>
              /\ h[Len(h)] = <<now, state'.hvac_fan_state>>
              /\ \A i \in 1..(Len(h) - 1) : h[i][1] <= h[i + 1][1]
              /\ \A i \in 1..Len(h) : h[i][1] > now - DAY /\ h[i][1] <= now
              /\ IsSubseqIso(iso(h), Append(hvac_history, h[Len(h)]))
              /\ \A k \in ActuatorFields : state'[k] = state[k]
              /\ gpio_pump' = gpio_pump /\ gpio_fan' = gpio_fan
      ]_vars

\* two monitor ticks have appended to a buffer loaded from history.json, and
\* eviction has removed samples that were older than 24 h while younger
\* loaded samples are still in front of the new ones
C25_Witness ==
    /\ IsSet(history_file)
    /\ appends >= 2
    /\ Len(hvac_history) >= 3
    /\ Len(hvac_history) < Len(Val(history_file)) + appends

---------------------------------------------------------------------------
(* The controller's copies of the actuator flags (specification Spec)      *)

\* C26: once a controller tick has ended, the locals pump_on / fan_on of
\* control_thread_func equal state['pump_on'] / state['fan_on'].
C26_LocalsMirrorShared ==
    tick_path # "none" =>
        /\ ctl.pump_on = state.pump_on
        /\ ctl.fan_on = state.fan_on

====
